---- MODULE Spec2Model ----
(***************************************************************************)
(* A model of the mfbot-server crawl scheduler and ingestion pipeline      *)
(* (src/src/main.rs).                                                      *)
(*                                                                         *)
(* The store is PostgreSQL reached through an sqlx connection pool         *)
(* (main.rs:127).  Every HTTP handler runs on a connection of its own, so  *)
(* statements of different handlers run concurrently under PostgreSQL's    *)
(* default isolation level, READ COMMITTED:                                *)
(*   - a statement reads the rows committed when the statement starts;     *)
(*   - an UPDATE that finds a target row changed by a concurrent           *)
(*     transaction waits for that transaction, then re-evaluates its WHERE *)
(*     clause on the new version of the TARGET row only; rows of a         *)
(*     sub-select (a CTE) are not read again.  It then writes the new      *)
(*     version.                                                            *)
(* A statement of the form                                                 *)
(*     WITH cte AS (SELECT id .. WHERE <due> LIMIT n)                      *)
(*     UPDATE t SET .. WHERE id IN (SELECT id FROM cte) RETURNING ..       *)
(* is therefore two steps: the evaluation of the CTE on the statement's    *)
(* snapshot (...Select), and the update of the rows it named (...Update).  *)
(* The outer WHERE clause names only the id, so its re-evaluation always   *)
(* succeeds for a row that still exists.                                   *)
(***************************************************************************)
EXTENDS Integers, Sequences, FiniteSets, TLC

VARIABLES
    clock,      \* Utc::now(), seconds
    nticks,     \* how often the clock has advanced (bounds the model)
    player,     \* table player: a sequence of rows, player_id = index
    cr,         \* get_characters_to_crawl calls in flight, per caller
    claimedAt,  \* history: per player_id, the latest `now` of a claim that returned it
    server,     \* table server: server_id -> row
    todo,       \* table todo_hof_page: a set of rows
    todoGen,    \* history: how many page lists have been generated (names the tuples)
    hf,         \* get_hof_pages_to_crawl calls in flight, per caller
    ncalls,     \* how many handler calls have started (bounds the model)
    info,       \* table player_info: a sequence of rows, in commit order
    guild,      \* table guild: a set of rows, unique on (server, name)
    description,\* table description: a sequence of texts, description_id = index
    blob,       \* table otherplayer_resp: a sequence of rows, the id = index
    equipment,  \* table equipment: a set of rows
    ip,         \* report_players requests in flight, per worker
    rh,         \* report_hof_pages: the page transaction that ran last
    codec,      \* compress_ident: two idents and what they encode to
    bk          \* the backoff arithmetic of insert_player on drawn inputs

vars == <<clock, nticks, ncalls, player, cr, claimedAt, server, todo, todoGen,
          hf, info, guild, description, blob, equipment, ip, rh, codec, bk>>

timeVars == <<clock, nticks, ncalls>>
crawlVars == <<cr, claimedAt>>
hofVars == <<server, todo, todoGen, hf, rh>>
ingestVars == <<info, guild, description, blob, equipment, ip>>
pureVars == <<codec, bk>>

----------------------------------------------------------------------------
(* Bounds of the model *)

MaxTicks == 2
MaxCalls == 3

----------------------------------------------------------------------------
(* Durations, in seconds: main.rs:385-393 *)

minutes(m) == 60 * m
hours(h) == 60 * 60 * h
days(d) == 60 * 60 * 24 * d

NULL == -1
NONE == "none"

(* No page transaction of report_hof_pages has run *)
RhIdle == [server |-> 0, page |-> NULL, listing |-> <<>>, outcome |-> NONE]

(* The pure functions are not under test *)
PureOff ==
    /\ codec = [pc |-> "off"]
    /\ bk = [pc |-> "off"]

Servers == {1, 2}
Names == {"a", "b"}

Min(a, b) == IF a < b THEN a ELSE b

Tick(steps) ==
    /\ nticks < MaxTicks
    /\ \E d \in steps : clock' = clock + d
    /\ nticks' = nticks + 1
    /\ UNCHANGED <<ncalls, player, crawlVars, hofVars, ingestVars,
                   pureVars>>

----------------------------------------------------------------------------
(* Player Recrawl Scheduler: get_characters_to_crawl, main.rs:395-428 *)

Callers == {"c1", "c2"}

PlayerLimitCap == 500
PlayerLease == 30

Limits == {1, 501}

PlayerIds == 1..Len(player)

(* WHERE server_id = $1 AND next_report_attempt < $2 *)
DuePlayersWithRemoved(s, now) ==
    {i \in PlayerIds : player[i].server = s /\ player[i].nra < now}

(* WHERE server_id = $1 AND next_report_attempt < $2 AND is_removed = false *)
DuePlayers(s, now) ==
    {i \in PlayerIds :
        /\ player[i].server = s
        /\ player[i].nra < now
        /\ ~player[i].is_removed}

(* LIMIT $3 without ORDER BY: any subset of the rows of the wanted size *)
LimitSets(S, lim) ==
    {T \in SUBSET S : Cardinality(T) = Min(lim, Cardinality(S))}

(* asked: args.limit, as the caller sent it *)
CrIdle == [pc |-> "idle", server |-> 0, limit |-> 0, now |-> 0, cte |-> {},
           due |-> {}, ret |-> {}, conc |-> {}, before |-> {}, asked |-> 0]

(* main.rs:399-404: the arguments, now, the capped limit *)
ClaimStart(c, s, lim) ==
    /\ cr[c].pc \in {"idle", "done"}
    /\ ncalls < MaxCalls
    /\ ncalls' = ncalls + 1
    /\ cr' = [d \in Callers |->
                IF d = c
                THEN [pc |-> "sel", server |-> s,
                      limit |-> Min(lim, PlayerLimitCap), asked |-> lim,
                      now |-> clock, cte |-> {}, due |-> {}, ret |-> {},
                      conc |-> {},
                      before |-> {e \in Callers \ {c} : cr[e].pc # "idle"}]
                ELSE [cr[d] EXCEPT !.conc = @ \ {c}, !.before = @ \ {c}]]
    /\ UNCHANGED <<player, claimedAt, clock, nticks, hofVars, ingestVars,
                   pureVars>>

(* main.rs:407-413: the CTE, evaluated on the statement's snapshot *)
ClaimSelect(c) ==
    /\ cr[c].pc = "sel"
    /\ \E T \in LimitSets(DuePlayers(cr[c].server, cr[c].now), cr[c].limit) :
         cr' = [d \in Callers |->
                  IF d = c
                  THEN [cr[c] EXCEPT !.pc = "upd", !.cte = T,
                          !.due = DuePlayers(cr[c].server, cr[c].now),
                          !.conc = {e \in Callers \ {c} : cr[e].pc = "upd"}]
                  ELSE IF cr[d].pc = "upd"
                       THEN [cr[d] EXCEPT !.conc = @ \cup {c}]
                       ELSE cr[d]]
    /\ UNCHANGED <<player, claimedAt, timeVars, hofVars, ingestVars,
                   pureVars>>

(* A lease of 30 hours instead of 30 minutes *)
ClaimUpdateLong(c) ==
    /\ cr[c].pc = "upd"
    /\ player' = [i \in PlayerIds |->
                    IF i \in cr[c].cte
                    THEN [player[i] EXCEPT
                            !.nra = cr[c].now + hours(PlayerLease)]
                    ELSE player[i]]
    /\ cr' = [cr EXCEPT ![c].pc = "done", ![c].cte = {},
                        ![c].ret = {player[i].name : i \in cr[c].cte}]
    /\ claimedAt' = [i \in PlayerIds |->
                       IF i \in cr[c].cte /\ cr[c].now > claimedAt[i]
                       THEN cr[c].now ELSE claimedAt[i]]
    /\ UNCHANGED <<timeVars, hofVars, ingestVars,
                   pureVars>>

(* main.rs:402, 414-417: UPDATE player SET next_report_attempt = now + 30 min
   WHERE player_id IN (SELECT player_id FROM cte) RETURNING name *)
ClaimUpdate(c) ==
    /\ cr[c].pc = "upd"
    /\ player' = [i \in PlayerIds |->
                    IF i \in cr[c].cte
                    THEN [player[i] EXCEPT
                            !.nra = cr[c].now + minutes(PlayerLease)]
                    ELSE player[i]]
    /\ cr' = [cr EXCEPT ![c].pc = "done", ![c].cte = {},
                        ![c].ret = {player[i].name : i \in cr[c].cte}]
    /\ claimedAt' = [i \in PlayerIds |->
                       IF i \in cr[c].cte /\ cr[c].now > claimedAt[i]
                       THEN cr[c].now ELSE claimedAt[i]]
    /\ UNCHANGED <<timeVars, hofVars, ingestVars,
                   pureVars>>

----------------------------------------------------------------------------
(* HoF Page Scheduler: get_hof_pages_to_crawl, main.rs:430-513 *)

HofTtlDays == 3
HofPageSize == 51
HofLimitCap == 100
HofLease == 15

(* The column default of todo_hof_page.next_report_attempt: the epoch *)
TodoDefaultNra == 0

HofLimits == {1, 101}
PlayerCounts == {50, 51}

HfIdle == [pc |-> "idle", server |-> 0, player_count |-> 0, limit |-> 0,
           now |-> 0, won |-> FALSE, cte |-> {}, ret |-> {},
           rconc |-> {}, pconc |-> {}]

(* main.rs:434-439, 489: the arguments, BEGIN, now, the capped limit *)
HofStart(c, s, pcnt, lim) ==
    /\ hf[c].pc \in {"idle", "done"}
    /\ ncalls < MaxCalls
    /\ ncalls' = ncalls + 1
    /\ hf' = [d \in Callers |->
                IF d = c
                THEN [HfIdle EXCEPT !.pc = "rsel", !.server = s,
                        !.player_count = pcnt,
                        !.limit = Min(lim, HofLimitCap), !.now = clock]
                ELSE [hf[d] EXCEPT !.rconc = @ \ {c}, !.pconc = @ \ {c}]]
    /\ UNCHANGED <<clock, nticks, player, crawlVars, server, todo, todoGen, ingestVars,
                   rh, pureVars>>

(* main.rs:443-446: SELECT server_id FROM server
   WHERE server_id = $1 AND last_hof_crawl < now - 3 days, on the statement's
   snapshot.  With an empty result the UPDATE changes nothing, returns no row
   and the transaction commits (main.rs:459, 487). *)
HofReseedSelect(c) ==
    /\ hf[c].pc = "rsel"
    /\ LET stale == server[hf[c].server].last_hof_crawl
                      < hf[c].now - days(HofTtlDays)
       IN hf' = [d \in Callers |->
                   IF d = c
                   THEN [hf[c] EXCEPT
                           !.pc = IF stale THEN "rupd" ELSE "psel",
                           !.rconc = IF stale
                                     THEN {e \in Callers \ {c} :
                                             hf[e].pc = "rupd"}
                                     ELSE {}]
                   ELSE IF stale /\ hf[d].pc = "rupd"
                        THEN [hf[d] EXCEPT !.rconc = @ \cup {c}]
                        ELSE hf[d]]
    /\ UNCHANGED <<timeVars, player, crawlVars, server, todo, todoGen, ingestVars,
                   rh, pureVars>>

(* main.rs:469: (player_count as f32 / 51.0) as i32 truncates *)
TotalPages(pcnt) == pcnt \div HofPageSize

(* main.rs:472-478: cnt(x) holds 0 and x + 1 for every x < $1 *)
PageRows(s, total_pages, gen) ==
    {[server |-> s, idx |-> x, nra |-> TodoDefaultNra, gen |-> gen] :
        x \in 0..total_pages}

(* main.rs:447-487: UPDATE server SET last_hof_crawl = now for the row the CTE
   named (the row lock is held to the commit, so the transactions that reseed
   one server run this part one after the other), DELETE the server's pages,
   INSERT the new page list, COMMIT. *)
HofReseedUpdate(c) ==
    /\ hf[c].pc = "rupd"
    /\ server' = [server EXCEPT ![hf[c].server].last_hof_crawl = hf[c].now]
    /\ todo' = {r \in todo : r.server # hf[c].server}
                 \cup PageRows(hf[c].server, TotalPages(hf[c].player_count),
                               todoGen + 1)
    /\ todoGen' = todoGen + 1
    /\ hf' = [hf EXCEPT ![c].pc = "psel", ![c].won = TRUE]
    /\ UNCHANGED <<timeVars, player, crawlVars, ingestVars,
                   rh, pureVars>>

(* WHERE server_id = $1 AND next_report_attempt < $2 *)
DuePages(s, now) == {r \in todo : r.server = s /\ r.nra < now}

RowId(r) == [idx |-> r.idx, gen |-> r.gen]

(* main.rs:493-498: the CTE, evaluated on the statement's snapshot *)
HofPageSelect(c) ==
    /\ hf[c].pc = "psel"
    /\ \E T \in LimitSets(DuePages(hf[c].server, hf[c].now), hf[c].limit) :
         hf' = [d \in Callers |->
                  IF d = c
                  THEN [hf[c] EXCEPT !.pc = "pupd",
                          !.cte = {RowId(r) : r \in T},
                          !.pconc = {e \in Callers \ {c} : hf[e].pc = "pupd"}]
                  ELSE IF hf[d].pc = "pupd"
                       THEN [hf[d] EXCEPT !.pconc = @ \cup {c}]
                       ELSE hf[d]]
    /\ UNCHANGED <<timeVars, player, crawlVars, server, todo, todoGen, ingestVars,
                   rh, pureVars>>

(* main.rs:490, 499-502: UPDATE todo_hof_page SET next_report_attempt =
   now + 15 min WHERE server_id = $1 AND idx IN (SELECT idx FROM cte)
   RETURNING idx.  The rows are those of the statement's snapshot; one that
   was deleted since is skipped. *)
HofPageUpdate(c) ==
    /\ hf[c].pc = "pupd"
    /\ LET hit == {r \in todo : r.server = hf[c].server /\ RowId(r) \in hf[c].cte}
       IN /\ todo' = (todo \ hit)
                       \cup {[r EXCEPT !.nra = hf[c].now + minutes(HofLease)] :
                               r \in hit}
          /\ hf' = [hf EXCEPT ![c].pc = "done", ![c].cte = {},
                              ![c].ret = {r.idx : r \in hit}]
    /\ UNCHANGED <<timeVars, player, crawlVars, server, todoGen, ingestVars,
                   rh, pureVars>>

HofTicks == {minutes(16), days(3)}

IngestOff ==
    /\ info = <<>>
    /\ guild = {}
    /\ description = <<>>
    /\ blob = <<>>
    /\ equipment = {}
    /\ ip = <<>>

CrawlOff ==
    /\ player = <<>>
    /\ cr = [c \in Callers |-> CrIdle]
    /\ claimedAt = <<>>

HofInit ==
    /\ clock = days(4)
    /\ nticks = 0
    /\ ncalls = 0
    /\ server = [s \in Servers |->
                    [last_hof_crawl |-> IF s = 1 THEN 0 ELSE days(2)]]
    /\ todo \in {{}, {[server |-> 1, idx |-> 7, nra |-> 0, gen |-> 0]}}
    /\ todoGen = 0
    /\ hf = [c \in Callers |-> HfIdle]
    /\ rh = RhIdle
    /\ CrawlOff
    /\ IngestOff
    /\ PureOff

HofNext ==
    \/ \E c \in Callers, s \in Servers, n \in PlayerCounts, lim \in HofLimits :
         HofStart(c, s, n, lim)
    \/ \E c \in Callers : HofReseedSelect(c)
    \/ \E c \in Callers : HofReseedUpdate(c)
    \/ \E c \in Callers : HofPageSelect(c)
    \/ \E c \in Callers : HofPageUpdate(c)
    \/ Tick(HofTicks)

SpecHof == HofInit /\ [][HofNext]_vars

HofPast(c) == hf[c].pc \in {"psel", "pupd", "done"}

(* C6: of the get_crawl_hof_pages calls for one server whose conditional
   updates of last_hof_crawl run concurrently while it is older than the TTL,
   only one wins the update and regenerates the page list. *)
C6_ReseedExclusive ==
    \A c, d \in Callers :
        (/\ c # d
         /\ HofPast(c) /\ HofPast(d)
         /\ d \in hf[c].rconc
         /\ hf[c].server = hf[d].server)
        => ~(hf[c].won /\ hf[d].won)

CeilDiv(a, b) == (a + b - 1) \div b

(* C7: a reseed with player_count replaces the server's todo_hof_page rows
   by one row per page index 0 .. ceil(player_count / 51) - 1, all due. *)
C7_ReseedPageList ==
    [][\A c \in Callers :
        (hf[c].pc = "rupd" /\ hf'[c].pc = "psel")
        => LET rows == {r \in todo' : r.server = hf[c].server}
           IN /\ {r.idx : r \in rows}
                   = 0..(CeilDiv(hf[c].player_count, 51) - 1)
              /\ Cardinality(rows) = CeilDiv(hf[c].player_count, 51)
              /\ \A r \in rows : r.nra < hf[c].now]_vars

(* C21, reseed only after the TTL: a call regenerates the page list and sets
   last_hof_crawl to now only when the last_hof_crawl it replaces is more
   than 3 days before now, so that two reseeds of a server are more than 3
   days apart; a call that finds last_hof_crawl fresh leaves the server row
   and the TodoHofPage rows as they are. *)
C21_ReseedAfterTtl ==
    [][\A c \in Callers :
        /\ (hf[c].pc = "rupd" /\ hf'[c].pc = "psel")
             => server[hf[c].server].last_hof_crawl
                  < hf[c].now - days(HofTtlDays)
        /\ (hf[c].pc = "rsel" /\ hf'[c].pc = "psel")
             => server' = server /\ todo' = todo]_vars

(* C8: two concurrent HoF page claims for one server never return the same
   page index. *)
C8_HofLeaseExclusive ==
    \A c, d \in Callers :
        (/\ c # d
         /\ hf[c].pc = "done" /\ hf[d].pc = "done"
         /\ d \in hf[c].pconc
         /\ hf[c].server = hf[d].server)
        => hf[c].ret \cap hf[d].ret = {}

----------------------------------------------------------------------------
----------------------------------------------------------------------------
(* Equipment Codec: compress_ident, main.rs:53-60 *)

RECURSIVE Pow2(_)
Pow2(n) == IF n = 0 THEN 1 ELSE 2 * Pow2(n - 1)

RECURSIVE BitOr(_, _)
BitOr(a, b) ==
    IF a = 0 THEN b
    ELSE IF b = 0 THEN a
    ELSE (IF a % 2 = 1 \/ b % 2 = 1 THEN 1 ELSE 0)
           + 2 * BitOr(a \div 2, b \div 2)

NoClass == -1

(* `as i32` of the i64 hi * 2^16 + lo, with 0 <= lo < 2^16: the low 32 bits,
   bit 31 the sign *)
AsI32(hi, lo) ==
    LET h == hi % Pow2(16)
    IN (IF h >= Pow2(15) THEN h - Pow2(16) ELSE h) * Pow2(16) + lo

(* The class packed one bit lower, into the highest bit of the type *)
compress_ident_overlap(ident) ==
    LET lo == ident.model_id % Pow2(16)
        h0 == ident.model_id \div Pow2(16)
        h1 == BitOr(h0, ident.color)
        h2 == BitOr(h1, ident.typ * Pow2(8))
        h3 == BitOr(h2, (IF ident.class = NoClass THEN 0 ELSE ident.class + 1)
                            * Pow2(11))
    IN AsI32(h3, lo)

(* main.rs:53-59, the i64 kept as its bits above 16 and its low 16 bits *)
compress_ident(ident) ==
    LET lo == ident.model_id % Pow2(16)
        h0 == ident.model_id \div Pow2(16)
        h1 == BitOr(h0, ident.color)
        h2 == BitOr(h1, ident.typ * Pow2(8))
        h3 == BitOr(h2, (IF ident.class = NoClass THEN 0 ELSE ident.class + 1)
                            * Pow2(12))
    IN AsI32(h3, lo)

(* The fields read back from the bits of an i32: bits 0-15, 16-23, 24-27 and
   28-31 *)
decode_ident(code) ==
    LET lo == code % Pow2(16)
        hi == ((code - lo) \div Pow2(16)) % Pow2(16)
        cls == hi \div Pow2(12)
    IN [model_id |-> lo,
        color |-> hi % Pow2(8),
        typ |-> (hi \div Pow2(8)) % Pow2(4),
        class |-> IF cls = 0 THEN NoClass ELSE cls - 1,
        none |-> FALSE]

(* Valid idents, the ends of every field among them *)
ModelIds == {0, 1, 255, 65535}
Colors == {0, 1, 128, 255}
Typs == {0, 1, 8, 15}
Classes == {NoClass, 0, 7, 14}

ValidIdents ==
    {[model_id |-> m, color |-> c, typ |-> t, class |-> k, none |-> FALSE] :
       m \in ModelIds, c \in Colors, t \in Typs, k \in Classes}

(* compress_ident applied to the two idents drawn *)
Encode ==
    /\ codec.pc = "in"
    /\ codec' = [pc |-> "out", x |-> codec.x, y |-> codec.y,
                 cx |-> compress_ident(codec.x),
                 cy |-> compress_ident(codec.y)]
    /\ UNCHANGED <<timeVars, player, crawlVars, hofVars, ingestVars, bk>>

CodecInit ==
    /\ \E x \in ValidIdents, y \in ValidIdents :
         codec = [pc |-> "in", x |-> x, y |-> y]
    /\ bk = [pc |-> "off"]
    /\ clock = 0
    /\ nticks = 0
    /\ ncalls = 0
    /\ player = <<>>
    /\ cr = <<>>
    /\ claimedAt = <<>>
    /\ server = <<>>
    /\ todo = {}
    /\ todoGen = 0
    /\ hf = <<>>
    /\ rh = RhIdle
    /\ IngestOff

CodecNext == Encode

SpecCodec == CodecInit /\ [][CodecNext]_vars

(* C19, equipment codec reversibility: for valid idents the fields read back
   from bits 0-15, 16-23, 24-27 and 28-31 of the code are the model id, the
   color, the type and the class (class + 1 in the bits, 0 for no class) of
   the ident encoded, and two different idents have different codes. *)
C19_CodecReversible ==
    codec.pc = "out"
      => /\ decode_ident(codec.cx) = codec.x
         /\ decode_ident(codec.cy) = codec.y
         /\ codec.x # codec.y => codec.cx # codec.cy

(* Two idents are encoded that differ in the class only, one code with bit 31
   set *)
C19_Witness ==
    /\ codec.pc = "out"
    /\ codec.x.class = 14
    /\ codec.y = [codec.x EXCEPT !.class = NoClass]
    /\ codec.x.typ = 15
    /\ codec.cx < 0

----------------------------------------------------------------------------
(* Ingestion Pipeline: report_players and insert_player, main.rs:114-362 *)

Workers == {"w1", "w2"}

MaxBatch == 2

NoIdent == [model_id |-> 0, color |-> 0, typ |-> 0, class |-> NoClass, none |-> TRUE]
Ident(m, c, t, k) == [model_id |-> m, color |-> c, typ |-> t, class |-> k, none |-> FALSE]
Item(m, id) == [model_id |-> m, ident |-> id]

(* What OtherPlayer::parse makes of the payloads the model reports: "i1" is
   a player with two identical swords and a cosmetic item, "i2" the same
   player a level later with other equipment; any other payload is rejected
   (main.rs:132-143). *)
Infos == {"i1", "i2"}

ParseInfo(i) ==
    IF i = "i1"
    THEN [level |-> 10, experience |-> 500, honor |-> 3,
          base_attributes |-> <<20, 30>>, bonus_attributes |-> <<5, 0>>,
          equipment |-> <<Item(7, Ident(7, 2, 1, 0)), Item(7, Ident(7, 2, 1, 0)),
                          Item(120, Ident(120, 1, 3, NoClass))>>]
    ELSE [level |-> 11, experience |-> 700, honor |-> 4,
          base_attributes |-> <<21, 30>>, bonus_attributes |-> <<5, 0>>,
          equipment |-> <<Item(9, Ident(9, 0, 3, NoClass)), Item(3, NoIdent),
                          Item(12, Ident(12, 5, 10, 14))>>]

RECURSIVE SumSeq(_)
SumSeq(q) == IF q = <<>> THEN 0 ELSE Head(q) + SumSeq(Tail(q))

(* main.rs:157 *)
Experience(i) == ParseInfo(i).experience

(* main.rs:159-170: the items with model_id < 100 that have an ident,
   compressed, sorted and deduplicated: a set *)
EquipIdents(i) ==
    LET eq == ParseInfo(i).equipment
    IN {compress_ident(eq[k].ident) :
          k \in {j \in 1..Len(eq) : eq[j].model_id < 100 /\ ~eq[j].ident.none}}

(* main.rs:172 *)
EquipCount(i) == Len(ParseInfo(i).equipment)

(* main.rs:174-180 *)
Attributes(i) ==
    SumSeq(ParseInfo(i).base_attributes) + SumSeq(ParseInfo(i).bonus_attributes)

(* main.rs:310-314: zstd level 3, then the md5 of the compressed bytes *)
Compress(i) == <<"zstd", i>>
Md5Hex(b) == <<"md5", b>>

(* get_server_id (module db): the id of a server url, 0 for a url that is
   not one *)
ServerIdOf(url) == IF url = "s1" THEN 1 ELSE IF url = "s2" THEN 2 ELSE 0

FetchDates == {days(8), days(9)}

(* The last one is dated after the clock of the server *)
ValidReports ==
    {[name |-> "a", server |-> "s1", info |-> i,
      description |-> IF i = "i1" THEN NONE ELSE "d",
      guild |-> IF i = "i1" THEN NONE ELSE "g",
      fetch_date |-> t] : i \in Infos, t \in FetchDates}
      \cup {[name |-> "a", server |-> "s1", info |-> "i1",
              description |-> NONE, guild |-> NONE, fetch_date |-> days(11)]}

InvalidReports ==
    {[name |-> "a", server |-> "??", info |-> "i1", description |-> NONE,
      guild |-> NONE, fetch_date |-> days(9)],
     [name |-> "a", server |-> "s1", info |-> "x/y", description |-> NONE,
      guild |-> NONE, fetch_date |-> days(9)],
     [name |-> "a", server |-> "s1", info |-> "i1", description |-> NONE,
      guild |-> NONE, fetch_date |-> NULL]}

Reports == ValidReports \cup InvalidReports

NoRep == [name |-> NONE, server |-> NONE, info |-> NONE, description |-> NONE,
          guild |-> NONE, fetch_date |-> NULL]

NoRow == [found |-> FALSE]

(* dup: the report in hand is the one this request saw accepted just before *)
IpIdle == [pc |-> "idle", batch |-> 0, nproc |-> 0, nfail |-> 0, rep |-> NoRep,
           ft |-> 0, ex |-> NoRow, row |-> NoRow, last |-> NONE,
           lastpc |-> NONE, resp |-> NONE, dup |-> FALSE]

(* main.rs:114-117: a request with a batch of n reports; ncalls counts the
   reports sent *)
ReportPlayers(w, n) ==
    /\ ip[w].pc \in {"idle", "done"}
    /\ ncalls + n <= MaxCalls
    /\ ncalls' = ncalls + n
    /\ ip' = [ip EXCEPT ![w] = [IpIdle EXCEPT !.pc = "next", !.batch = n]]
    /\ UNCHANGED <<clock, nticks, player, crawlVars, hofVars,
                   info, guild, description, blob, equipment,
                   pureVars>>

(* main.rs:123: the batch is done, the endpoint answers Ok(()) *)
RpReturn(w) ==
    /\ ip[w].pc = "next"
    /\ ip[w].nproc = ip[w].batch
    /\ ip' = [ip EXCEPT ![w].pc = "done", ![w].resp = "ok"]
    /\ UNCHANGED <<timeVars, player, crawlVars, hofVars,
                   info, guild, description, blob, equipment,
                   pureVars>>

Failed(outcome) == outcome \in {"invalid", "dberror"}

(* The request goes on with a failure as if the loop body used `?` *)
AfterReportPropagate(w, outcome) ==
    IF Failed(outcome)
    THEN [ip[w] EXCEPT !.pc = "done", !.resp = "error",
            !.nproc = @ + 1, !.nfail = @ + 1, !.ex = NoRow, !.row = NoRow,
            !.last = outcome, !.lastpc = ip[w].pc, !.dup = FALSE]
    ELSE [ip[w] EXCEPT !.pc = "next", !.nproc = @ + 1,
            !.ex = NoRow, !.row = NoRow,
            !.last = outcome, !.lastpc = ip[w].pc, !.dup = FALSE]

(* main.rs:118-122: insert_player has returned; an Err is logged and the loop
   goes on with the next report *)
AfterReport(w, outcome) ==
    [ip[w] EXCEPT !.pc = "next", !.nproc = @ + 1,
        !.nfail = IF Failed(outcome) THEN @ + 1 ELSE @,
        !.ex = NoRow, !.row = NoRow,
        !.last = outcome, !.lastpc = ip[w].pc, !.dup = FALSE]

(* The fetch date of the report taken as it is *)
NoClamp(fetch_date, now) == fetch_date

(* main.rs:152-155: if fetch_time > now { fetch_time = now } *)
Clamp(fetch_date, now) == Min(fetch_date, now)

(* main.rs:130-155: the server id, the payload, the fetch date, clamped *)
IpBegin(w, r) ==
    /\ ip[w].pc = "next"
    /\ ip[w].nproc < ip[w].batch
    /\ ip' = [ip EXCEPT ![w] =
                IF \/ ServerIdOf(r.server) = 0
                   \/ r.info \notin Infos
                   \/ r.fetch_date = NULL
                THEN [AfterReport(w, "invalid") EXCEPT !.rep = r]
                ELSE [ip[w] EXCEPT !.pc = "select", !.rep = r,
                        !.ft = Clamp(r.fetch_date, clock),
                        !.ex = NoRow, !.row = NoRow, !.last = NONE,
                        !.lastpc = NONE,
                        !.dup = (ip[w].last = "accepted" /\ ip[w].rep = r)]]
    /\ UNCHANGED <<timeVars, player, crawlVars, hofVars,
                   info, guild, description, blob, equipment,
                   pureVars>>

(* fetch_optional: the first row of the server with the name *)
Lookup(s, nm) ==
    LET hits == {i \in PlayerIds : player[i].server = s /\ player[i].name = nm}
    IN IF hits = {} THEN NoRow
       ELSE LET i == CHOOSE j \in hits : \A k \in hits : j <= k
            IN [found |-> TRUE, player_id |-> i, level |-> player[i].level,
                attributes |-> player[i].attributes,
                last_reported |-> player[i].last_reported,
                xp |-> player[i].xp, last_changed |-> player[i].last_changed]

(* existing.last_reported.is_some_and(|a| a > fetch_time) *)
IsStaleStrict(ex, ft) ==
    ex.found /\ ex.last_reported # NULL /\ ex.last_reported > ft

(* main.rs:195: existing.last_reported.is_some_and(|a| a >= fetch_time) *)
IsStale(ex, ft) ==
    ex.found /\ ex.last_reported # NULL /\ ex.last_reported >= ft

(* main.rs:182-198: BEGIN, the SELECT of the existing row, the discard *)
IpSelect(w) ==
    /\ ip[w].pc = "select"
    /\ LET ex == Lookup(ServerIdOf(ip[w].rep.server), ip[w].rep.name)
       IN ip' = [ip EXCEPT ![w] =
                   IF IsStale(ex, ip[w].ft)
                   THEN AfterReport(w, "stale")
                   ELSE [ip[w] EXCEPT !.pc = "player", !.ex = ex]]
    /\ UNCHANGED <<timeVars, player, crawlVars, hofVars,
                   info, guild, description, blob, equipment,
                   pureVars>>

(* fastrand::u64(lo..=hi), sampled: its least value, its least and its
   greatest, or all of them *)
Sample(lo, hi, J) ==
    IF J = "lo" THEN {lo} ELSE IF J = "ends" THEN {lo, hi} ELSE lo..hi

(* The ranges of the hours read with their upper ends included *)
NextAttemptsInclusive(ft, changed, last_changed, J) ==
    IF changed
    THEN {ft + hours(h) + minutes(m) :
            h \in Sample(11, 14, J), m \in Sample(0, 59, J)}
    ELSE IF last_changed # NULL /\ last_changed + days(3) > ft
    THEN {ft + days(1) + hours(h) + minutes(m) :
            h \in Sample(0, 12, J), m \in Sample(0, 59, J)}
    ELSE IF last_changed # NULL /\ last_changed + days(7) > ft
    THEN UNION {{ft + days(d) + hours(h) + minutes(m) :
                   h \in Sample(0, 23, J), m \in Sample(0, 59, J)} :
                d \in Sample(2, 4, J)}
    ELSE UNION {{ft + days(d) + hours(h) + minutes(m) :
                   h \in Sample(0, 23, J), m \in Sample(0, 59, J)} :
                d \in Sample(10, 14, J)}

(* Only known stored values compared *)
HasChangedKnown(ex, i) ==
    \/ ex.attributes # NULL /\ ex.attributes # Attributes(i)
    \/ ex.xp # NULL /\ ex.xp # Experience(i)
    \/ ex.level # NULL /\ ex.level # ParseInfo(i).level

(* main.rs:199-201 *)
HasChanged(ex, i) ==
    \/ ex.attributes = NULL \/ ex.attributes # Attributes(i)
    \/ ex.xp = NULL \/ ex.xp # Experience(i)
    \/ ex.level = NULL \/ ex.level # ParseInfo(i).level

(* main.rs:203-228 *)
NextAttempts(ft, changed, last_changed, J) ==
    IF changed
    THEN {ft + hours(h) + minutes(m) :
            h \in Sample(11, 13, J), m \in Sample(0, 59, J)}
    ELSE IF last_changed # NULL /\ last_changed + days(3) > ft
    THEN {ft + days(1) + hours(h) + minutes(m) :
            h \in Sample(0, 11, J), m \in Sample(0, 59, J)}
    ELSE IF last_changed # NULL /\ last_changed + days(7) > ft
    THEN UNION {{ft + days(d) + hours(h) + minutes(m) :
                   h \in Sample(0, 22, J), m \in Sample(0, 59, J)} :
                d \in Sample(2, 4, J)}
    ELSE UNION {{ft + days(d) + hours(h) + minutes(m) :
                   h \in Sample(0, 23, J), m \in Sample(0, 59, J)} :
                d \in Sample(10, 14, J)}

(* main.rs:230-233 *)
LastChanged(ex, changed, ft) ==
    IF ex.last_changed # NULL /\ ~changed THEN ex.last_changed ELSE ft

(* The columns both the UPDATE (main.rs:237-251) and the INSERT
   (main.rs:260-274) write *)
PlayerCols(i, ft, na, lc) ==
    [found |-> TRUE, level |-> ParseInfo(i).level, attributes |-> Attributes(i),
     nra |-> na, last_reported |-> ft, last_changed |-> lc,
     equip_count |-> EquipCount(i), xp |-> Experience(i),
     honor |-> ParseInfo(i).honor]

(* The arithmetic of main.rs:199-233 on an existing row, a report and a
   fetch_time that are drawn: every row report_hof_pages or insert_player can
   have written *)
BkFetchTime == days(20)

BkLastChanged ==
    {BkFetchTime - 1,
     BkFetchTime - days(3) + 1, BkFetchTime - days(3),
     BkFetchTime - days(7) + 1, BkFetchTime - days(7),
     BkFetchTime - days(9)}

BkRows ==
    {[found |-> TRUE, player_id |-> 1, level |-> l, attributes |-> NULL,
      last_reported |-> NULL, xp |-> NULL, last_changed |-> NULL] :
       l \in {9, 10}}
    \cup
    {[found |-> TRUE, player_id |-> 1, level |-> l, attributes |-> a,
      last_reported |-> BkFetchTime - 1, xp |-> x, last_changed |-> lc] :
       l \in {10, 11}, a \in {55, 56}, x \in {500, 700}, lc \in BkLastChanged}

Backoff(J) ==
    /\ bk.pc = "in"
    /\ LET changed == HasChanged(bk.ex, bk.info)
       IN \E na \in NextAttempts(bk.ft, changed, bk.ex.last_changed, J) :
            bk' = [pc |-> "out", ex |-> bk.ex, info |-> bk.info, ft |-> bk.ft,
                   changed |-> changed, nra |-> na,
                   lc |-> LastChanged(bk.ex, changed, bk.ft)]
    /\ UNCHANGED <<timeVars, player, crawlVars, hofVars, ingestVars, codec>>

BackoffInit ==
    /\ \E ex \in BkRows, i \in Infos :
         bk = [pc |-> "in", ex |-> ex, info |-> i, ft |-> BkFetchTime]
    /\ codec = [pc |-> "off"]
    /\ clock = BkFetchTime
    /\ nticks = 0
    /\ ncalls = 0
    /\ player = <<>>
    /\ cr = <<>>
    /\ claimedAt = <<>>
    /\ server = <<>>
    /\ todo = {}
    /\ todoGen = 0
    /\ hf = <<>>
    /\ rh = RhIdle
    /\ info = <<>> /\ guild = {} /\ description = <<>> /\ blob = <<>>
    /\ equipment = {} /\ ip = <<>>

BackoffNext == Backoff("ends")

SpecBackoff == BackoffInit /\ [][BackoffNext]_vars

(* The report says what the stored row says, none of it unknown *)
SameStats(ex, i) ==
    /\ ex.attributes # NULL /\ ex.attributes = Attributes(i)
    /\ ex.xp # NULL /\ ex.xp = Experience(i)
    /\ ex.level # NULL /\ ex.level = ParseInfo(i).level

(* fetch_time + d days + h hours + m minutes, for all d, h and m of the
   ranges *)
Jitter(ft, dlo, dhi, hlo, hhi) ==
    {ft + days(d) + hours(h) + minutes(m) :
       d \in dlo..dhi, h \in hlo..hhi, m \in 0..59}

(* C12, adaptive backoff tiers: for an accepted report on an existing player
   the next_report_attempt computed is one of, and the values that can be
   computed are all of: fetch_time + 11..13 h + 0..59 min when the report
   differs from the stored row; else fetch_time + 1 d + 0..11 h + 0..59 min
   when last_changed + 3 d > fetch_time; else fetch_time + 2..4 d + 0..22 h
   + 0..59 min when last_changed + 7 d > fetch_time; else fetch_time
   + 10..14 d + 0..23 h + 0..59 min. *)
C12_BackoffTiers ==
    bk.pc = "out"
      => LET ft == bk.ft
             lc == bk.ex.last_changed
             range ==
               IF ~SameStats(bk.ex, bk.info) THEN Jitter(ft, 0, 0, 11, 13)
               ELSE IF lc # NULL /\ lc + days(3) > ft
               THEN Jitter(ft, 1, 1, 0, 11)
               ELSE IF lc # NULL /\ lc + days(7) > ft
               THEN Jitter(ft, 2, 4, 0, 22)
               ELSE Jitter(ft, 10, 14, 0, 23)
         IN /\ bk.nra \in range
            /\ NextAttempts(ft, bk.changed, lc, "all") = range

(* An unchanged player whose last change is between 3 and 7 days old gets the
   latest attempt of its tier *)
C12_Witness ==
    /\ bk.pc = "out"
    /\ SameStats(bk.ex, bk.info)
    /\ bk.ex.last_changed + days(3) <= bk.ft
    /\ bk.ex.last_changed + days(7) > bk.ft
    /\ bk.nra = bk.ft + days(4) + hours(22) + minutes(59)

(* C12 as the specification words it, every range with both its ends:
   11..14 h when changed, 1 d + 0..12 h within 3 days, 2..4 d + 0..23 h within
   7 days, 10..14 d + 0..23 h when older *)
C12_AsStated ==
    bk.pc = "out"
      => LET ft == bk.ft
             lc == bk.ex.last_changed
             range ==
               IF ~SameStats(bk.ex, bk.info) THEN Jitter(ft, 0, 0, 11, 14)
               ELSE IF lc # NULL /\ lc + days(3) > ft
               THEN Jitter(ft, 1, 1, 0, 12)
               ELSE IF lc # NULL /\ lc + days(7) > ft
               THEN Jitter(ft, 2, 4, 0, 23)
               ELSE Jitter(ft, 10, 14, 0, 23)
         IN /\ bk.nra \in range
            /\ NextAttempts(ft, bk.changed, lc, "all") = range

(* C20, change detection and last_changed: for an accepted report on an
   existing player has_changed is false exactly when the stored attributes,
   xp and level are known and equal to the report's; last_changed becomes
   fetch_time when has_changed and stays the stored value otherwise. *)
C20_ChangeDetection ==
    bk.pc = "out"
      => /\ bk.changed <=> ~SameStats(bk.ex, bk.info)
         /\ bk.lc = IF SameStats(bk.ex, bk.info)
                    THEN bk.ex.last_changed ELSE bk.ft

(* An unchanged player keeps its last_changed, which is before fetch_time *)
C20_Witness ==
    /\ bk.pc = "out"
    /\ ~bk.changed
    /\ bk.lc = bk.ex.last_changed
    /\ bk.lc < bk.ft

(* Half a day after the first report *)
FirstAttemptHalfDay(ft) == ft + hours(12)

(* main.rs:256 *)
FirstAttempt(ft) == ft + days(1)

InTx(v) == ip[v].pc \in {"upserts", "snapshot", "commit"}

(* The row lock of an UPDATE, or of an INSERT that has not committed, on the
   player of a report *)
HoldsPlayer(v, r) ==
    /\ InTx(v)
    /\ ip[v].rep.server = r.server
    /\ ip[v].rep.name = r.name

(* No unique index on player: no INSERT conflicts *)
PlayerKeyFree(s, nm) == FALSE

(* The unique index on player (server_id, name): an INSERT of a name the
   server has fails *)
PlayerKeyTaken(s, nm) == Lookup(s, nm).found

(* main.rs:199-278: the UPDATE of the existing row, which waits for a
   transaction that holds the row, or the INSERT of an unseen player *)
IpPlayer(w, J) ==
    /\ ip[w].pc = "player"
    /\ \A v \in Workers \ {w} : ~HoldsPlayer(v, ip[w].rep)
    /\ LET r == ip[w].rep
           ex == ip[w].ex
           ft == ip[w].ft
       IN IF ex.found
          THEN LET changed == HasChanged(ex, r.info)
               IN \E na \in NextAttempts(ft, changed, ex.last_changed, J) :
                    ip' = [ip EXCEPT ![w].pc = "upserts",
                             ![w].row = PlayerCols(r.info, ft, na,
                                          LastChanged(ex, changed, ft))]
          ELSE IF PlayerKeyTaken(ServerIdOf(r.server), r.name)
          THEN ip' = [ip EXCEPT ![w] = AfterReport(w, "dberror")]
          ELSE ip' = [ip EXCEPT ![w].pc = "upserts",
                        ![w].row = PlayerCols(r.info, ft, FirstAttempt(ft), ft)]
    /\ UNCHANGED <<timeVars, player, crawlVars, hofVars,
                   info, guild, description, blob, equipment,
                   pureVars>>

(* main.rs:297: player.description.unwrap_or_default() *)
DescriptionOf(r) == IF r.description = NONE THEN "" ELSE r.description

(* main.rs:310-314 *)
HashOf(r) == Md5Hex(Compress(r.info))

(* A plain INSERT into a table without a unique index *)
InsertDescription(tbl, text) == Append(tbl, text)

(* main.rs:298-306: INSERT ... ON CONFLICT(description) DO UPDATE *)
UpsertDescription(tbl, text) ==
    IF \E i \in 1..Len(tbl) : tbl[i] = text THEN tbl ELSE Append(tbl, text)

(* RETURNING description_id *)
DescriptionId(tbl, text) == CHOOSE i \in 1..Len(tbl) : tbl[i] = text

(* main.rs:316-326: INSERT ... ON CONFLICT(hash) DO UPDATE *)
UpsertBlob(tbl, resp, hash) ==
    IF \E i \in 1..Len(tbl) : tbl[i].hash = hash THEN tbl
    ELSE Append(tbl, [hash |-> hash, otherplayer_resp |-> resp])

(* RETURNING otherplayer_resp_id *)
BlobId(tbl, hash) == CHOOSE i \in 1..Len(tbl) : tbl[i].hash = hash

(* A transaction that has run its upserts holds, until it ends, the rows it
   inserted or updated: the guild, the description and the blob of its
   report *)
HoldsContent(v, r) ==
    /\ ip[v].pc \in {"snapshot", "commit"}
    /\ \/ DescriptionOf(ip[v].rep) = DescriptionOf(r)
       \/ HashOf(ip[v].rep) = HashOf(r)
       \/ /\ r.guild # NONE
          /\ ip[v].rep.guild = r.guild
          /\ ip[v].rep.server = r.server

(* main.rs:280-326: the guild, description and blob upserts, each of which
   waits for a transaction that holds its row *)
IpUpserts(w) ==
    /\ ip[w].pc = "upserts"
    /\ \A v \in Workers \ {w} : ~HoldsContent(v, ip[w].rep)
    /\ ip' = [ip EXCEPT ![w].pc = "snapshot"]
    /\ UNCHANGED <<timeVars, player, crawlVars, hofVars,
                   info, guild, description, blob, equipment,
                   pureVars>>

(* main.rs:328-359: the player_info row, the equipment rows *)
IpSnapshot(w) ==
    /\ ip[w].pc = "snapshot"
    /\ ip' = [ip EXCEPT ![w].pc = "commit"]
    /\ UNCHANGED <<timeVars, player, crawlVars, hofVars,
                   info, guild, description, blob, equipment,
                   pureVars>>

(* The player_id of the transaction: existing.player_id, or the one the
   INSERT returns (main.rs:254, 264) *)
PidOf(w) == IF ip[w].ex.found THEN ip[w].ex.player_id ELSE Len(player) + 1

(* The tables with the first k groups of statements of w's transaction
   applied: 1 the player row, 2 the upserts, 3 the snapshot *)
DbAfter(w, k) ==
    LET r == ip[w].rep
        s == ServerIdOf(r.server)
        pid == PidOf(w)
        row == ip[w].row
        hash == HashOf(r)
        descs == UpsertDescription(description, DescriptionOf(r))
        blobs == UpsertBlob(blob, Compress(r.info), hash)
    IN [player |->
          IF k < 1 THEN player
          ELSE IF ip[w].ex.found
          THEN [player EXCEPT ![pid] =
                  [@ EXCEPT !.level = row.level, !.attributes = row.attributes,
                            !.nra = row.nra,
                            !.last_reported = row.last_reported,
                            !.last_changed = row.last_changed,
                            !.equip_count = row.equip_count, !.xp = row.xp,
                            !.honor = row.honor]]
          ELSE Append(player,
                 [server |-> s, name |-> r.name, is_removed |-> FALSE,
                  level |-> row.level, attributes |-> row.attributes,
                  nra |-> row.nra, last_reported |-> row.last_reported,
                  last_changed |-> row.last_changed,
                  equip_count |-> row.equip_count, xp |-> row.xp,
                  honor |-> row.honor]),
        guild |->
          IF k < 2 \/ r.guild = NONE THEN guild
          ELSE {g \in guild : ~(g.server = s /\ g.name = r.guild)}
                 \cup {[server |-> s, name |-> r.guild, is_removed |-> FALSE]},
        description |-> IF k < 2 THEN description ELSE descs,
        blob |-> IF k < 2 THEN blob ELSE blobs,
        info |->
          IF k < 3 THEN info
          ELSE Append(info,
                 [player_id |-> pid, fetch_time |-> ip[w].ft,
                  xp |-> Experience(r.info), level |-> ParseInfo(r.info).level,
                  description |-> DescriptionId(descs, DescriptionOf(r)),
                  guild |-> r.guild,
                  otherplayer_resp |-> BlobId(blobs, hash),
                  honor |-> ParseInfo(r.info).honor]),
        equipment |->
          IF k < 3 THEN equipment
          ELSE {e \in equipment : e.player_id # pid}
                 \cup {[server |-> s, player_id |-> pid, ident |-> x] :
                         x \in EquipIdents(r.info)}]

Publish(db) ==
    /\ player' = db.player
    /\ guild' = db.guild
    /\ description' = db.description
    /\ blob' = db.blob
    /\ info' = db.info
    /\ equipment' = db.equipment

(* main.rs:361: COMMIT *)
IpCommit(w) ==
    /\ ip[w].pc = "commit"
    /\ Publish(DbAfter(w, 3))
    /\ ip' = [ip EXCEPT ![w] = AfterReport(w, "accepted")]
    /\ UNCHANGED <<timeVars, crawlVars, hofVars,
                   pureVars>>

TxPcs == {"select", "player", "upserts", "snapshot", "commit"}

Executed(pc) ==
    IF pc = "upserts" THEN 1
    ELSE IF pc = "snapshot" THEN 2
    ELSE IF pc = "commit" THEN 3 ELSE 0

(* The statements run on the pool instead of the transaction: what has been
   executed stays *)
IpFailPartial(w) ==
    /\ ip[w].pc \in TxPcs
    /\ Publish(DbAfter(w, Executed(ip[w].pc)))
    /\ ip' = [ip EXCEPT ![w] = AfterReport(w, "dberror")]
    /\ UNCHANGED <<timeVars, crawlVars, hofVars,
                   pureVars>>

(* A statement of the transaction, or BEGIN or COMMIT, fails (every `.await?`
   of main.rs:182-361): insert_player returns the error and the transaction,
   dropped, is rolled back *)
IpFail(w) ==
    /\ ip[w].pc \in TxPcs
    /\ ip' = [ip EXCEPT ![w] = AfterReport(w, "dberror")]
    /\ UNCHANGED <<timeVars, player, crawlVars, hofVars,
                   info, guild, description, blob, equipment,
                   pureVars>>

(* A player the HoF listing created, and one with an accepted report of
   payload i at time t *)
HofPlayerRow(s, nm, lvl) ==
    [server |-> s, name |-> nm, is_removed |-> FALSE, level |-> lvl,
     attributes |-> NULL, nra |-> 0, last_reported |-> NULL,
     last_changed |-> NULL, equip_count |-> NULL, xp |-> NULL, honor |-> NULL]

ReportedPlayerRow(s, nm, i, t) ==
    [server |-> s, name |-> nm, is_removed |-> FALSE,
     level |-> ParseInfo(i).level, attributes |-> Attributes(i),
     nra |-> t + days(1), last_reported |-> t, last_changed |-> t,
     equip_count |-> EquipCount(i), xp |-> Experience(i),
     honor |-> ParseInfo(i).honor]

IngestInitDb ==
    \/ /\ player = <<>>
       /\ info = <<>> /\ description = <<>> /\ blob = <<>> /\ equipment = {}
    \/ /\ player = <<HofPlayerRow(1, "a", 9)>>
       /\ info = <<>> /\ description = <<>> /\ blob = <<>> /\ equipment = {}
    \/ /\ player = <<ReportedPlayerRow(1, "a", "i1", days(8))>>
       /\ info = <<[player_id |-> 1, fetch_time |-> days(8),
                    xp |-> Experience("i1"), level |-> ParseInfo("i1").level,
                    description |-> 1, guild |-> NONE,
                    otherplayer_resp |-> 1,
                    honor |-> ParseInfo("i1").honor]>>
       /\ description = <<"">>
       /\ blob = <<[hash |-> Md5Hex(Compress("i1")),
                    otherplayer_resp |-> Compress("i1")]>>
       /\ equipment = {[server |-> 1, player_id |-> 1, ident |-> x] :
                         x \in EquipIdents("i1")}

IngestInit ==
    /\ clock = days(10)
    /\ nticks = 0
    /\ ncalls = 0
    /\ IngestInitDb
    /\ guild = {[server |-> 1, name |-> "g", is_removed |-> TRUE]}
    /\ ip = [w \in Workers |-> IpIdle]
    /\ cr = [c \in Callers |-> CrIdle]
    /\ claimedAt = <<>>
    /\ server = [s \in Servers |-> [last_hof_crawl |-> 0]]
    /\ todo = {}
    /\ todoGen = 0
    /\ hf = [c \in Callers |-> HfIdle]
    /\ rh = RhIdle
    /\ PureOff

IngestNext ==
    \/ \E w \in Workers, n \in 1..MaxBatch : ReportPlayers(w, n)
    \/ \E w \in Workers : RpReturn(w)
    \/ \E w \in Workers, r \in Reports : IpBegin(w, r)
    \/ \E w \in Workers : IpSelect(w)
    \/ \E w \in Workers : IpPlayer(w, "lo")
    \/ \E w \in Workers : IpUpserts(w)
    \/ \E w \in Workers : IpSnapshot(w)
    \/ \E w \in Workers : IpCommit(w)
    \/ \E w \in Workers : IpFail(w)

SpecIngest == IngestInit /\ [][IngestNext]_vars

(* zstd decode_all of a stored blob *)
Decompress(b) == b[2]

(* The payload of the blob with an id *)
PayloadOf(id) == Decompress(blob[id].otherplayer_resp)

InfoRows(pid) == {k \in 1..Len(info) : info[k].player_id = pid}

NewestInfo(pid) ==
    {k \in InfoRows(pid) :
       \A j \in InfoRows(pid) : info[j].fetch_time <= info[k].fetch_time}

EquipmentOf(pid) == {e.ident : e \in {x \in equipment : x.player_id = pid}}

(* C2, snapshot recency: when no ingestion transaction is open, the equipment
   rows of a player whose accepted reports have one newest fetch_time are the
   deduplicated idents of the payload of that newest report, whatever the
   order and the interleaving of the insert_player calls. *)
C2_SnapshotRecency ==
    (\A w \in Workers : ip[w].pc \notin TxPcs)
      => \A pid \in PlayerIds :
           Cardinality(NewestInfo(pid)) = 1
             => \A k \in NewestInfo(pid) :
                  EquipmentOf(pid) = EquipIdents(PayloadOf(info[k].otherplayer_resp))

(* C3, staleness discard: a report whose SELECT finds a player whose
   last_reported is at or after the clamped fetch_time of the report ends as
   discarded-stale in that step, the loop goes on, and the Player, the
   PlayerInfo and the Equipment rows are what they were. *)
C3_StalenessDiscard ==
    [][\A w \in Workers :
         LET ex == Lookup(ServerIdOf(ip[w].rep.server), ip[w].rep.name)
         IN (/\ ip[w].pc = "select"
             /\ ip'[w] # ip[w]
             /\ ip'[w].last # "dberror"
             /\ ex.found
             /\ ex.last_reported # NULL
             /\ ip[w].ft <= ex.last_reported)
              => /\ ip'[w].last = "stale"
                 /\ ip'[w].pc = "next"
                 /\ UNCHANGED <<player, info, equipment>>]_vars

(* A report was discarded whose fetch_time is the last_reported of the player *)
C3_Witness ==
    \E w \in Workers :
      /\ ip[w].last = "stale"
      /\ ip[w].lastpc = "select"
      /\ Lookup(ServerIdOf(ip[w].rep.server), ip[w].rep.name).found
      /\ Lookup(ServerIdOf(ip[w].rep.server), ip[w].rep.name).last_reported
           = ip[w].ft

(* C9, ingestion atomicity: a step in which a report, its transaction open,
   ends with a storage error leaves the Player, PlayerInfo, Guild,
   Description, blob and Equipment tables what they were before the
   transaction: none of its writes is visible. *)
C9_IngestionAtomicity ==
    [][\A w \in Workers :
         (/\ ip[w].pc \in TxPcs
          /\ ip'[w].nproc = ip[w].nproc + 1
          /\ ip'[w].last = "dberror")
           => UNCHANGED <<player, info, guild, description, blob, equipment>>]_vars

(* A transaction failed at its COMMIT, every statement executed *)
C9_Witness ==
    \E w \in Workers : ip[w].last = "dberror" /\ ip[w].lastpc = "commit"

(* C10, batch isolation: a report that fails does not end the request; the
   request ends only when every report of the batch has been processed, and
   it answers success. *)
C10_BatchIsolation ==
    \A w \in Workers :
      /\ ip[w].nproc <= ip[w].batch
      /\ ip[w].pc = "done" => (ip[w].nproc = ip[w].batch /\ ip[w].resp = "ok")
      /\ (ip[w].last # NONE /\ ip[w].nproc < ip[w].batch) => ip[w].pc # "done"

(* A batch of two is done whose first report failed and whose second was
   accepted *)
C10_Witness ==
    \E w \in Workers :
      /\ ip[w].pc = "done"
      /\ ip[w].batch >= 2
      /\ ip[w].nfail >= 1
      /\ ip[w].last = "accepted"
      /\ ip[w].resp = "ok"

(* The player rows of a (server_id, name) *)
RowsOf(tbl, srv, nm) ==
    {i \in 1..Len(tbl) : tbl[i].server = srv /\ tbl[i].name = nm}

(* C13, first report of an unseen player: the COMMIT of a report whose SELECT
   found no Player row adds one Player row, the only one of its (server,
   name), with next_report_attempt = fetch_time + 1 day and last_reported =
   last_changed = fetch_time. *)
C13_FirstReport ==
    [][\A w \in Workers :
         (/\ ip[w].pc = "commit"
          /\ ~ip[w].ex.found
          /\ ip'[w].last = "accepted"
          /\ ip'[w].nproc = ip[w].nproc + 1)
           => LET srv == ServerIdOf(ip[w].rep.server)
                  nm == ip[w].rep.name
                  new == RowsOf(player', srv, nm)
              IN /\ Len(player') = Len(player) + 1
                 /\ new = {Len(player')}
                 /\ \A i \in new :
                      /\ player'[i].nra = ip[w].ft + days(1)
                      /\ player'[i].last_reported = ip[w].ft
                      /\ player'[i].last_changed = ip[w].ft]_vars

(* The only report accepted so far created the only player *)
C13_Witness ==
    /\ Len(player) = 1
    /\ Len(info) = 1
    /\ \E w \in Workers : ip[w].last = "accepted"
    /\ player[1].last_changed = player[1].last_reported
    /\ player[1].nra = player[1].last_reported + days(1)

(* Reports of two players that have the same payloads and descriptions *)
DedupReports ==
    {[name |-> n, server |-> "s1", info |-> i,
      description |-> IF i = "i1" THEN NONE ELSE "d",
      guild |-> IF i = "i1" THEN NONE ELSE "g",
      fetch_date |-> days(9)] : n \in Names, i \in Infos}

DedupNext ==
    \/ \E w \in Workers, n \in 1..MaxBatch : ReportPlayers(w, n)
    \/ \E w \in Workers : RpReturn(w)
    \/ \E w \in Workers, r \in DedupReports : IpBegin(w, r)
    \/ \E w \in Workers : IpSelect(w)
    \/ \E w \in Workers : IpPlayer(w, "lo")
    \/ \E w \in Workers : IpUpserts(w)
    \/ \E w \in Workers : IpSnapshot(w)
    \/ \E w \in Workers : IpCommit(w)
    \/ \E w \in Workers : IpFail(w)

SpecDedup == IngestInit /\ [][DedupNext]_vars

(* C18, content dedup: after every step no two blob rows have the same hash
   and no two description rows the same text; and the PlayerInfo row a COMMIT
   adds carries the ids of the rows that hold the description and the
   compressed payload of its report, which are the rows that held them before
   if there were such rows. *)
C18_ContentDedup ==
    [][/\ \A i, j \in 1..Len(blob') :
            blob'[i].hash = blob'[j].hash => i = j
       /\ \A i, j \in 1..Len(description') :
            description'[i] = description'[j] => i = j
       /\ \A w \in Workers :
            (ip[w].pc = "commit" /\ ip'[w].last = "accepted"
               /\ ip'[w].nproc = ip[w].nproc + 1)
              => LET new == info'[Len(info')]
                     text == DescriptionOf(ip[w].rep)
                     hash == HashOf(ip[w].rep)
                 IN /\ Len(info') = Len(info) + 1
                    /\ description'[new.description] = text
                    /\ blob'[new.otherplayer_resp].hash = hash
                    /\ \A i \in 1..Len(description) :
                         description[i] = text => new.description = i
                    /\ \A i \in 1..Len(blob) :
                         blob[i].hash = hash => new.otherplayer_resp = i]_vars

(* Two players have snapshots of the one blob row and the one description
   row *)
C18_Witness ==
    /\ Len(blob) = 1
    /\ Len(description) = 1
    /\ \E j, k \in 1..Len(info) :
         /\ info[j].player_id # info[k].player_id
         /\ info[j].otherplayer_resp = info[k].otherplayer_resp
         /\ info[j].description = info[k].description

(* C24, monotone last_reported: no step lowers the last_reported of a Player
   row, and when no ingestion transaction is open the last_reported of a
   player that has PlayerInfo rows is the greatest of their fetch_times. *)
C24_MonotoneLastReported ==
    [][/\ \A i \in 1..Len(player) :
            player[i].last_reported # NULL
              => player'[i].last_reported >= player[i].last_reported
       /\ (\A w \in Workers : ip'[w].pc \notin TxPcs)
            => \A i \in 1..Len(player') :
                 \A k \in 1..Len(info') :
                   info'[k].player_id = i
                     => info'[k].fetch_time <= player'[i].last_reported]_vars

RereportTicks == {hours(1)}

(* C23, future timestamps are clamped: a report whose fetch_date is after the
   clock of the server when it is read gets fetch_time = now, one whose
   fetch_date is not gets its fetch_date; and after every step no
   Player.last_reported and no PlayerInfo.fetch_time is after the clock. *)
C23_FutureClamped ==
    [][/\ \A w \in Workers :
            (ip[w].pc = "next" /\ ip'[w].pc = "select")
              => ip'[w].ft = IF ip'[w].rep.fetch_date > clock
                             THEN clock ELSE ip'[w].rep.fetch_date
       /\ \A i \in 1..Len(player') :
            player'[i].last_reported <= clock'
       /\ \A k \in 1..Len(info') : info'[k].fetch_time <= clock']_vars

(* A report dated after the clock was accepted: the player and a PlayerInfo
   row have the time of the ingestion, before the date of the report *)
C23_Witness ==
    \E w \in Workers :
      /\ ip[w].last = "accepted"
      /\ ip[w].rep.fetch_date > clock
      /\ ip[w].ft < ip[w].rep.fetch_date
      /\ \E i \in RowsOf(player, ServerIdOf(ip[w].rep.server), ip[w].rep.name) :
           /\ player[i].last_reported = ip[w].ft
           /\ \E k \in 1..Len(info) :
                info[k].player_id = i /\ info[k].fetch_time = ip[w].ft


(* One client that reports, and reports again, while time passes *)
RereportNext ==
    \/ \E n \in 1..MaxBatch : ReportPlayers("w1", n)
    \/ RpReturn("w1")
    \/ \E r \in ValidReports : IpBegin("w1", r)
    \/ IpSelect("w1")
    \/ IpPlayer("w1", "lo")
    \/ IpUpserts("w1")
    \/ IpSnapshot("w1")
    \/ IpCommit("w1")
    \/ IpFail("w1")
    \/ Tick(RereportTicks)

SpecRereport == IngestInit /\ [][RereportNext]_vars

(* C11, re-report idempotence: the report a request has just seen accepted,
   sent again with the same name, server, payload and fetch_date, ends
   without a change to Player, PlayerInfo, Equipment, the blobs or the
   descriptions. *)
C11_RereportIdempotent ==
    [][\A w \in Workers :
         (/\ ip[w].dup
          /\ ip[w].pc \in TxPcs
          /\ ip'[w].pc \notin TxPcs)
           => UNCHANGED <<player, info, equipment, blob, description>>]_vars

----------------------------------------------------------------------------
(* HoF ingestion: report_hof_pages, main.rs:515-567 *)

(* The entries of a listing, as what main.rs:526-534 makes of them: one that
   HallOfFamePlayer::parse accepts, one it rejects, and the empty slot, which
   ends with ",,,0,0,0," *)
HofEntry(nm, lvl) == [kind |-> "player", name |-> nm, level |-> lvl]
BadEntry == [kind |-> "bad", name |-> NONE, level |-> 0]
EmptySlot == [kind |-> "empty", name |-> NONE, level |-> 0]

Listings ==
    {<<HofEntry("a", 5), BadEntry, HofEntry("b", 7), EmptySlot, HofEntry("c", 3)>>,
     <<EmptySlot, HofEntry("b", 2)>>,
     <<HofEntry("b", 2), HofEntry("b", 3)>>}

HofPages == {0, 1}

(* Every entry parsed, the empty slot passed over *)
RECURSIVE ParseListingAll(_)
ParseListingAll(l) ==
    IF l = <<>> THEN <<>>
    ELSE IF Head(l).kind = "player"
    THEN <<Head(l)>> \o ParseListingAll(Tail(l))
    ELSE ParseListingAll(Tail(l))

(* main.rs:523-535: the loop breaks at the empty slot and skips what does not
   parse *)
RECURSIVE ParseListing(_)
ParseListing(l) ==
    IF l = <<>> \/ Head(l).kind = "empty" THEN <<>>
    ELSE IF Head(l).kind = "player"
    THEN <<Head(l)>> \o ParseListing(Tail(l))
    ELSE ParseListing(Tail(l))

(* Only a row whose lease has run out is deleted *)
DeletePageUnleased(s, page) ==
    {t \in todo : ~(t.server = s /\ t.idx = page /\ t.nra < clock)}

(* main.rs:537-545 *)
DeletePage(s, page) == {t \in todo : ~(t.server = s /\ t.idx = page)}

(* A row of a name the table has takes the level listed *)
RECURSIVE HofUpsert(_, _, _)
HofUpsert(tbl, s, ps) ==
    IF ps = <<>> THEN tbl
    ELSE LET e == Head(ps)
             hit == RowsOf(tbl, s, e.name)
         IN HofUpsert(
              IF hit = {} THEN Append(tbl, HofPlayerRow(s, e.name, e.level))
              ELSE [i \in 1..Len(tbl) |->
                      IF i \in hit THEN [tbl[i] EXCEPT !.level = e.level]
                      ELSE tbl[i]],
              s, Tail(ps))

(* main.rs:552-563: INSERT INTO player (server_id, name, level) ... ON
   CONFLICT DO NOTHING; a tuple conflicts with a row the table has
   (PlayerKeyTaken) and with a tuple before it in the statement *)
RECURSIVE HofInsert(_, _, _)
HofInsert(tbl, s, ps) ==
    IF ps = <<>> THEN tbl
    ELSE LET e == Head(ps)
         IN HofInsert(
              IF \/ PlayerKeyTaken(s, e.name)
                 \/ \E i \in Len(player) + 1..Len(tbl) :
                      tbl[i].server = s /\ tbl[i].name = e.name
              THEN tbl
              ELSE Append(tbl, HofPlayerRow(s, e.name, e.level)),
              s, Tail(ps))

(* An INSERT of insert_player that has not committed holds the key of a
   player the listing names: the ON CONFLICT waits for it *)
HoldsListed(v, s, ps) ==
    /\ InTx(v)
    /\ ~ip[v].ex.found
    /\ ServerIdOf(ip[v].rep.server) = s
    /\ \E k \in 1..Len(ps) : ps[k].name = ip[v].rep.name

(* main.rs:521-564: the transaction of one page of a report, committed *)
ReportHofPage(s, page, listing) ==
    /\ ncalls < MaxCalls
    /\ ncalls' = ncalls + 1
    /\ \A v \in Workers : ~HoldsListed(v, s, ParseListing(listing))
    /\ todo' = DeletePage(s, page)
    /\ player' = HofInsert(player, s, ParseListing(listing))
    /\ rh' = [server |-> s, page |-> page, listing |-> listing,
              outcome |-> "ok"]
    /\ UNCHANGED <<clock, nticks, crawlVars, server, todoGen, hf, ingestVars,
                   pureVars>>

(* A statement of the page transaction, or its BEGIN or COMMIT, fails: the
   error is returned (main.rs:522, 545, 548, 563, 564) and the transaction is
   rolled back *)
ReportHofPageFail(s, page) ==
    /\ ncalls < MaxCalls
    /\ ncalls' = ncalls + 1
    /\ rh' = [server |-> s, page |-> page, listing |-> <<>>,
              outcome |-> "dberror"]
    /\ UNCHANGED <<clock, nticks, player, crawlVars, server, todo, todoGen, hf,
                   ingestVars, pureVars>>

(* The reports of players next to the HoF reports: of a and of b, who is not
   known *)
HofEraReports == {r \in DedupReports : r.info = "i1"}

ReportInit ==
    /\ clock = days(10)
    /\ nticks = 0
    /\ ncalls = 0
    /\ IngestInitDb
    /\ guild = {}
    /\ ip = [w \in Workers |-> IpIdle]
    /\ cr = [c \in Callers |-> CrIdle]
    /\ claimedAt = <<>>
    /\ server = [s \in Servers |-> [last_hof_crawl |-> days(9)]]
    /\ todo = {[server |-> 1, idx |-> 0, nra |-> 0, gen |-> 0],
               [server |-> 1, idx |-> 1, nra |-> days(10) + minutes(15),
                gen |-> 0],
               [server |-> 2, idx |-> 0, nra |-> 0, gen |-> 0]}
    /\ todoGen = 0
    /\ hf = [c \in Callers |-> HfIdle]
    /\ rh = RhIdle
    /\ PureOff

ReportNext ==
    \/ \E w \in Workers : ReportPlayers(w, 1)
    \/ \E w \in Workers : RpReturn(w)
    \/ \E w \in Workers, r \in HofEraReports : IpBegin(w, r)
    \/ \E w \in Workers : IpSelect(w)
    \/ \E w \in Workers : IpPlayer(w, "lo")
    \/ \E w \in Workers : IpUpserts(w)
    \/ \E w \in Workers : IpSnapshot(w)
    \/ \E w \in Workers : IpCommit(w)
    \/ \E w \in Workers : IpFail(w)
    \/ \E s \in Servers, page \in HofPages, l \in Listings :
         ReportHofPage(s, page, l)
    \/ \E s \in Servers, page \in HofPages : ReportHofPageFail(s, page)

SpecReport == ReportInit /\ [][ReportNext]_vars

(* A step that is a page transaction of report_hof_pages *)
HofPageStep == ncalls' = ncalls + 1 /\ ip' = ip

(* C14, player identity uniqueness: in every state reached by player reports
   and HoF reports, interleaved in any way, no two Player rows have the same
   (server_id, name). *)
C14_PlayerUnique ==
    \A i, j \in 1..Len(player) :
      (player[i].server = player[j].server /\ player[i].name = player[j].name)
        => i = j

(* Two requests reported the same player, unseen before; one was accepted,
   one failed at its INSERT; a HoF listing that names the player was
   ingested; the player has one row *)
C14_Witness ==
    /\ \E w, v \in Workers :
         /\ ip[w].last = "accepted"
         /\ ip[v].last = "dberror" /\ ip[v].lastpc = "player"
         /\ ip[w].rep.name = "b" /\ ip[v].rep.name = "b"
    /\ rh.outcome = "ok" /\ rh.server = 1
    /\ \E k \in 1..Len(ParseListing(rh.listing)) :
         ParseListing(rh.listing)[k].name = "b"
    /\ Cardinality(RowsOf(player, 1, "b")) = 1

(* C15, HoF page completion: a page transaction that commits deletes the
   TodoHofPage rows of its server and page index, and only those, whatever
   their next_report_attempt and whatever the listing; one that fails leaves
   the TodoHofPage and the Player rows as they were. *)
C15_PageCompletion ==
    [][HofPageStep
         => IF rh'.outcome = "ok"
            THEN todo' = {t \in todo :
                            ~(t.server = rh'.server /\ t.idx = rh'.page)}
            ELSE todo' = todo /\ player' = player]_vars

(* The row of page 1 of server 1, leased at the start, is gone after a report
   of the page from which no player was parsed *)
C15_Witness ==
    /\ rh.outcome = "ok" /\ rh.server = 1 /\ rh.page = 1
    /\ ParseListing(rh.listing) = <<>>
    /\ Len(rh.listing) > 0
    /\ ~\E t \in todo : t.server = 1 /\ t.idx = 1

(* C16, HoF first-seen wins: a page transaction leaves every Player row that
   exists as it is, and the rows it adds are of (server, name) pairs that had
   no row. *)
C16_FirstSeenWins ==
    [][HofPageStep
         => /\ Len(player') >= Len(player)
            /\ \A i \in 1..Len(player) : player'[i] = player[i]
            /\ \A i \in Len(player) + 1..Len(player') :
                 RowsOf(player, player'[i].server, player'[i].name) = {}]_vars

(* A listing that has player a at level 5 was ingested; a, reported before,
   has its level 10 and its last_reported *)
C16_Witness ==
    /\ rh.outcome = "ok" /\ rh.server = 1
    /\ \E k \in 1..Len(ParseListing(rh.listing)) :
         /\ ParseListing(rh.listing)[k].name = "a"
         /\ ParseListing(rh.listing)[k].level = 5
    /\ \E i \in RowsOf(player, 1, "a") :
         player[i].level = 10 /\ player[i].last_reported # NULL

(* C17, HoF listing parse: the players a committed page transaction inserts
   are the names, without a row before, of the entries of the listing that
   parse and have no empty slot at or before them; each gets the level of the
   first such entry of its name. *)
C17_ListingParse ==
    [][(HofPageStep /\ rh'.outcome = "ok")
         => LET l == rh'.listing
                srv == rh'.server
                good == {k \in 1..Len(l) :
                           /\ l[k].kind = "player"
                           /\ \A j \in 1..k : l[j].kind # "empty"}
                first == {k \in good :
                            \A j \in good : l[j].name = l[k].name => k <= j}
                added == Len(player) + 1..Len(player')
            IN /\ \A k \in first :
                    RowsOf(player, srv, l[k].name) = {}
                      => \E i \in added :
                           player'[i] = HofPlayerRow(srv, l[k].name, l[k].level)
               /\ \A i \in added :
                    \E k \in first :
                      player'[i] = HofPlayerRow(srv, l[k].name, l[k].level)
               /\ \A i, j \in added :
                    player'[i].name = player'[j].name => i = j]_vars

(* The listing with a malformed entry and an empty slot was ingested: b, who
   is listed before the slot, has a row at level 7, c, listed after it, has
   none *)
C17_Witness ==
    /\ rh.outcome = "ok" /\ rh.server = 1
    /\ \E k \in 1..Len(rh.listing) : rh.listing[k].kind = "bad"
    /\ \E k \in 1..Len(rh.listing) : rh.listing[k].kind = "empty"
    /\ \E i \in RowsOf(player, 1, "b") : player[i] = HofPlayerRow(1, "b", 7)
    /\ RowsOf(player, 1, "c") = {}

----------------------------------------------------------------------------
CrawlTicks == {minutes(10), minutes(31)}

CrawlRow(s, nm, rm, t) ==
    [server |-> s, name |-> nm, is_removed |-> rm, nra |-> t]

HofOff ==
    /\ server = [s \in Servers |-> [last_hof_crawl |-> 0]]
    /\ todo = {}
    /\ todoGen = 0
    /\ hf = [c \in Callers |-> HfIdle]
    /\ rh = RhIdle

CrawlInit ==
    /\ clock = minutes(1)
    /\ nticks = 0
    /\ ncalls = 0
    /\ \E t \in {0, minutes(20)}, rm \in BOOLEAN :
         player = <<CrawlRow(1, "a", FALSE, 0), CrawlRow(1, "b", rm, t),
                    CrawlRow(2, "a", FALSE, 0)>>
    /\ cr = [c \in Callers |-> CrIdle]
    /\ claimedAt = [i \in 1..3 |-> NULL]
    /\ HofOff
    /\ IngestOff
    /\ PureOff

CrawlNext ==
    \/ \E c \in Callers, s \in Servers, lim \in Limits : ClaimStart(c, s, lim)
    \/ \E c \in Callers : ClaimSelect(c)
    \/ \E c \in Callers : ClaimUpdate(c)
    \/ Tick(CrawlTicks)

SpecCrawl == CrawlInit /\ [][CrawlNext]_vars

NamesOf(S) == {player[i].name : i \in S}

(* C1: two concurrent get_crawl_players calls for the same server with
   overlapping due sets, each with limit = size of its due set, return name
   sets whose union is the due set and whose intersection is empty. *)
C1_LeaseExclusive ==
    \A c, d \in Callers :
        (/\ c # d
         /\ cr[c].pc = "done" /\ cr[d].pc = "done"
         /\ d \in cr[c].conc
         /\ cr[c].server = cr[d].server
         /\ cr[c].due \cap cr[d].due # {}
         /\ cr[c].limit = Cardinality(cr[c].due)
         /\ cr[d].limit = Cardinality(cr[d].due))
        => /\ cr[c].ret \cup cr[d].ret = NamesOf(cr[c].due \cup cr[d].due)
           /\ cr[c].ret \cap cr[d].ret = {}

(* C4: a row returned by a claim at time now is not returned again by a claim
   issued later and before now + 30 minutes (no report is ingested in this
   specification). *)
C4_NoReclaimInLease ==
    \A c, d \in Callers :
        (/\ c # d
         /\ cr[c].pc = "done" /\ cr[d].pc = "done"
         /\ c \in cr[d].before
         /\ cr[c].server = cr[d].server
         /\ cr[d].now < cr[c].now + minutes(30))
        => cr[c].ret \cap cr[d].ret = {}

(* C5: a claimed, non-removed player for which no report is ingested is due
   again once 30 minutes have passed since the claim: a claim for its server
   whose limit covers the due set selects it, and returns what it selected. *)
C5_NoWorkLost ==
    [][\A c \in Callers :
        /\ (cr[c].pc = "sel" /\ cr'[c].pc = "upd"
             /\ cr[c].limit >= Cardinality(DuePlayers(cr[c].server, cr[c].now)))
           => \A i \in PlayerIds :
                (/\ player[i].server = cr[c].server
                 /\ ~player[i].is_removed
                 /\ claimedAt[i] # NULL
                 /\ claimedAt[i] + minutes(30) < cr[c].now)
                => i \in cr'[c].cte
        /\ (cr[c].pc = "upd" /\ cr'[c].pc = "done")
           => cr'[c].ret = NamesOf(cr[c].cte)]_vars

C5_Witness ==
    \E c \in Callers, i \in PlayerIds :
        /\ cr[c].pc = "done"
        /\ player[i].name \in cr[c].ret
        /\ player[i].server = cr[c].server
        /\ claimedAt[i] = cr[c].now
        /\ \E d \in Callers \ {c} :
             /\ cr[d].pc = "done"
             /\ player[i].name \in cr[d].ret
             /\ cr[d].server = cr[c].server
             /\ cr[d].now + minutes(30) < cr[c].now

(* C22, claim filter and cap: the rows a claim selects are at most
   min(limit, 500), all of the requested server, not removed and with
   next_report_attempt < now when the statement reads them; the names
   returned are theirs; the statement sets their next_report_attempt and
   changes nothing else: every other row is what it was. *)
C22_ClaimFilterAndCap ==
    [][\A c \in Callers :
        /\ (cr[c].pc = "sel" /\ cr'[c].pc = "upd")
           => /\ \A i \in cr'[c].cte :
                   /\ player[i].server = cr[c].server
                   /\ player[i].is_removed = FALSE
                   /\ player[i].nra < cr[c].now
              /\ Cardinality(cr'[c].cte) <= cr[c].asked
              /\ Cardinality(cr'[c].cte) <= 500
              /\ player' = player
        /\ (cr[c].pc = "upd" /\ cr'[c].pc = "done")
           => /\ cr'[c].ret = {player[i].name : i \in cr[c].cte}
              /\ Cardinality(cr'[c].ret) <= cr[c].asked
              /\ Cardinality(cr'[c].ret) <= 500
              /\ Len(player') = Len(player)
              /\ \A i \in 1..Len(player) :
                   player'[i] =
                     IF i \in cr[c].cte
                     THEN [player[i] EXCEPT !.nra = cr[c].now + minutes(30)]
                     ELSE player[i]]_vars

(* A claim with limit 1 returned one of the two due players of server 1; the
   other is as it was, and so is the player of server 2 *)
C22_Witness ==
    \E c \in Callers :
      /\ cr[c].pc = "done"
      /\ cr[c].server = 1
      /\ cr[c].asked = 1
      /\ Cardinality(cr[c].due) = 2
      /\ Cardinality(cr[c].ret) = 1
      /\ \E i \in cr[c].due : player[i].nra < cr[c].now
      /\ \E i \in PlayerIds : player[i].server = 2 /\ player[i].nra = 0

====
